---- MODULE Spec2Model ----
(***************************************************************************)
(* A model of ddosint: the API client (api_client.py), the data exporter   *)
(* (export.py) and the command dispatcher (cli.py).                        *)
(*                                                                         *)
(* Text that the code inspects character by character (dates, hosts,       *)
(* formats, file names, CSV keys and cells) is a sequence of Unicode code  *)
(* points, so that matching, lower-casing, replacing and sorting are       *)
(* computed as Python computes them.  Text that the code only passes       *)
(* through (message fragments, endpoint names) is a TLA+ string.           *)
(***************************************************************************)
EXTENDS Integers, Sequences, FiniteSets, TLC

VARIABLES
    pc,        \* "idle": a fresh process, nothing called yet; "done": the call returned
    build,     \* the exception class response.json() raises in this installation
    call,      \* the operation invoked and its arguments
    events,    \* what the invocation did to the outside world, in order
    response,  \* the HTTP response the network produced for the GET (if any)
    result,    \* how the API-client operation ended (returned / raised)
    fs,        \* the file system now
    fs0,       \* the file system when the process started
    stdout,    \* lines printed to standard output
    stderr,    \* the line printed to the error stream (prefix, message)
    exitCode   \* the command's return value

vars == <<pc, build, call, events, response, result, fs, fs0, stdout, stderr, exitCode>>

----------------------------------------------------------------------------
(* Bounds of the model.                                                    *)

\* the longest list of DateSummary the server returns
MaxDates == 3
\* --limit ranges over -MaxLimit .. MaxLimit (and "not given")
MaxLimit == 4
\* the longest list of targets handed to export_csv
MaxTargets == 2

----------------------------------------------------------------------------
(* Text as code points.                                                    *)

Min(a, b) == IF a < b THEN a ELSE b
Max(a, b) == IF a > b THEN a ELSE b

S_json == <<106, 115, 111, 110>>                \* "json"
S_csv == <<99, 115, 118>>                       \* "csv"
S_error == <<101, 114, 114, 111, 114>>          \* "error"
S_targets == <<116, 97, 114, 103, 101, 116, 115>>   \* "targets" (the default prefix)
S_search == <<115, 101, 97, 114, 99, 104>>      \* "search"
S_stats == <<115, 116, 97, 116, 115>>           \* "stats"
S_overview == <<111, 118, 101, 114, 118, 105, 101, 119>>   \* "overview"
S_by_day == <<98, 121, 95, 100, 97, 121>>       \* "by_day"
D_0115 == <<50, 48, 50, 52, 45, 48, 49, 45, 49, 53>>   \* "2024-01-15"
D_0116 == <<50, 48, 50, 52, 45, 48, 49, 45, 49, 54>>   \* "2024-01-16"

\* s[from..] starts with the text t
StartsAt(s, from, t) ==
    /\ from + Len(t) - 1 <= Len(s)
    /\ \A i \in 1..Len(t) : s[from + i - 1] = t[i]

\* Python's  t in s  for two strings: t is a substring of s
Contains(s, t) == \E from \in 1..(Len(s) + 1) : StartsAt(s, from, t)

\* str.lower() on the characters the model uses (ASCII)
LowerChar(c) == IF c \in 65..90 THEN c + 32 ELSE c
Lower(s) == [i \in 1..Len(s) |-> LowerChar(s[i])]

\* str.replace('.', '_')
ReplaceDots(s) == [i \in 1..Len(s) |-> IF s[i] = 46 THEN 95 ELSE s[i]]

\* a < b in Python's string order (lexicographic by code point)
RECURSIVE StrLess(_, _)
StrLess(a, b) ==
    IF Len(b) = 0 THEN FALSE
    ELSE IF Len(a) = 0 THEN TRUE
    ELSE IF a[1] # b[1] THEN a[1] < b[1]
    ELSE StrLess(Tail(a), Tail(b))

\* str(n) for an integer n >= 0
RECURSIVE Digits(_)
Digits(n) == IF n < 10 THEN <<48 + n>> ELSE Digits(n \div 10) \o <<48 + (n % 10)>>

----------------------------------------------------------------------------
(* JSON values.  Every value is a record of the same shape; t says which   *)
(* fields carry it.  A mapping lists its keys in `keys`.                   *)

NoStats == [present |-> FALSE, total_targets |-> 0]

JNull ==
    [t |-> "null", keys |-> {}, error |-> "", date |-> <<>>, targets |-> <<>>,
     stats |-> NoStats, items |-> <<>>, s |-> <<>>, n |-> 0]

JMap(keys, error, date, targets, stats) ==
    [JNull EXCEPT !.t = "map", !.keys = keys, !.error = error, !.date = date,
                  !.targets = targets, !.stats = stats]
JList(items) == [JNull EXCEPT !.t = "list", !.items = items]
JStr(s) == [JNull EXCEPT !.t = "str", !.s = s]
JNum(n) == [JNull EXCEPT !.t = "num", !.n = n]

\* elements of a list body: a string, or a DateSummary mapping
ItemStr(s) == [t |-> "str", s |-> s, date |-> 0, target_count |-> 0, request_count |-> 0]
DateSummary(d) ==
    [t |-> "map", s |-> <<>>, date |-> d, target_count |-> 10 * d, request_count |-> 100 * d]

\* Python truthiness of a JSON value ( `if not dates`, `if targets` )
Truthy(v) ==
    CASE v.t = "map" -> v.keys # {}
      [] v.t = "list" -> v.items # <<>>
      [] v.t = "str" -> v.s # <<>>
      [] v.t = "num" -> v.n # 0
      [] OTHER -> FALSE

----------------------------------------------------------------------------
(* API client (api_client.py).                                             *)

\* how an operation ends: it returns a value or raises an exception
Return(value) == [kind |-> "return", msg |-> <<>>, value |-> value]
Raise(class, msg) == [kind |-> class, msg |-> msg, value |-> JNull]
NoResult == [kind |-> "none", msg |-> <<>>, value |-> JNull]

\* what the network does with a GET
HttpResponse(status, parses, data) ==
    [kind |-> "http", status |-> status, parses |-> parses, data |-> data]
NetworkFailure(kind) == [kind |-> kind, status |-> 0, parses |-> FALSE, data |-> JNull]
NoResponse == NetworkFailure("none")

\* one thing done to the outside world
Event(ev, what) == [ev |-> ev, what |-> what]

\* a faulty variant of RaisesForStatus: 4xx statuses pass
RaisesForStatusOnly5xx(status) == status >= 500 /\ status < 600
\* response.raise_for_status(): HTTPError for 4xx and 5xx
RaisesForStatus(status) == status >= 400 /\ status < 600

\* 'error' in data : "yes", "no", or the TypeError of a value that is no container
ErrorIn(data) ==
    CASE data.t = "map" -> IF "error" \in data.keys THEN "yes" ELSE "no"
      [] data.t = "list" ->
            IF \E i \in DOMAIN data.items :
                  data.items[i].t = "str" /\ data.items[i].s = S_error
            THEN "yes" ELSE "no"
      [] data.t = "str" -> IF Contains(data.s, S_error) THEN "yes" ELSE "no"
      [] OTHER -> "TypeError"

\* the class response.json() raises on a body that is no JSON: requests >= 2.27
\* raises requests.exceptions.JSONDecodeError (a RequestException and a
\* json.JSONDecodeError: the first except clause takes it), older releases raise
\* json.JSONDecodeError alone
Builds == {"RequestsJSONDecodeError", "JSONDecodeError"}

\* the body of _request after the GET was answered by resp
RequestOutcome(resp, bld) ==
    IF resp.kind # "http"
    THEN Raise("RequestException", <<"Failed to connect to API: ", resp.kind>>)
    ELSE IF RaisesForStatus(resp.status)
    THEN Raise("RequestException", <<"Failed to connect to API: ", "HTTPError">>)
    ELSE IF ~resp.parses
    THEN IF bld = "RequestsJSONDecodeError"
         THEN Raise("RequestException", <<"Failed to connect to API: ", "JSONDecodeError">>)
         ELSE Raise("ValueError", <<"Invalid JSON response: ", "JSONDecodeError">>)
    ELSE LET found == ErrorIn(resp.data) IN
         IF found = "TypeError"
         THEN Raise("TypeError", <<"argument is not iterable">>)
         ELSE IF found = "yes"
         THEN IF resp.data.t = "map"
              THEN Raise("ValueError", <<"API Error: ", resp.data.error>>)
              ELSE Raise("TypeError", <<"indices must be integers">>)
         ELSE Return(resp.data)

\* a faulty variant of Request: a failed GET is issued once more
RequestRetrying(endpoint, resp, bld) ==
    LET r == RequestOutcome(resp, bld) IN
    [events |-> IF r.kind = "return" THEN <<Event("GET", endpoint)>>
                ELSE <<Event("GET", endpoint), Event("GET", endpoint)>>,
     result |-> r]
\* _request: one GET, then RequestOutcome
Request(endpoint, resp, bld) ==
    [events |-> <<Event("GET", endpoint)>>, result |-> RequestOutcome(resp, bld)]

\* \d of a str pattern: any Unicode decimal digit (ASCII and, here, Arabic-Indic)
IsDigit(c) == c \in 48..57 \/ c \in 1632..1641

\* $ : at the end of the string, or just before a newline that ends the string
AtEnd(s, i) == i = Len(s) + 1 \/ (i = Len(s) /\ s[i] = 10)

\* re.match(r'^\d{4}-\d{2}-\d{2}$', date)
DateMatches(date) ==
    /\ Len(date) >= 10
    /\ \A i \in {1, 2, 3, 4, 6, 7, 9, 10} : IsDigit(date[i])
    /\ date[5] = 45
    /\ date[8] = 45
    /\ AtEnd(date, 11)

get_stats(stat_type, resp, bld) == Request("stats.php", resp, bld)
get_recent_targets(limit, resp, bld) == Request("recent_targets.php", resp, bld)
search_host(host, resp, bld) == Request("search_host.php", resp, bld)
get_targets_by_date(date, resp, bld) ==
    IF ~DateMatches(date)
    THEN [events |-> <<>>,
          result |-> Raise("ValueError", <<"Date must be in YYYY-MM-DD format">>)]
    ELSE Request("targets_by_date.php", resp, bld)
get_available_dates(resp, bld) == Request("available_dates.php", resp, bld)

----------------------------------------------------------------------------
(* Data exporter (export.py).                                              *)

\* A target is a mapping; its keys keep their insertion order, so a row is a
\* sequence of (key, value) pairs with distinct keys.
Cell(k, v) == [k |-> k, v |-> v]
VStr(s) == [t |-> "str", s |-> s, n |-> 0]
VNum(n) == [t |-> "num", s |-> <<>>, n |-> n]
VNull == [t |-> "null", s |-> <<>>, n |-> 0]

\* target.keys()
Keys(row) == {row[i].k : i \in DOMAIN row}

\* directories: the working directory and two below it
Ancestors(dir) ==
    CASE dir = "cwd" -> {"cwd"}
      [] dir = "cwd/exports" -> {"cwd", "cwd/exports"}
      [] OTHER -> {"cwd", "cwd/exports", dir}

\* Path.mkdir(parents=True, exist_ok=True)
Mkdir(files, dir) == [files EXCEPT !.dirs = @ \cup Ancestors(dir)]

\* a file's content
JsonDoc(data) == [fmt |-> "json", doc |-> data, lines |-> <<>>]
CsvDoc(lines) == [fmt |-> "csv", doc |-> JNull, lines |-> lines]
OldDoc == [fmt |-> "old", doc |-> JNull, lines |-> <<>>]

Path(dir, name) == [dir |-> dir, name |-> name]
NoPath == Path("", <<>>)

\* open(path, 'w') and the write: the file is created or replaced
WriteFile(files, path, content) ==
    [files EXCEPT !.files =
        [p \in (DOMAIN @) \cup {path} |-> IF p = path THEN content ELSE @[p]]]

\* how an exporter call ends: exc is NoResult when it returned `path`
Exported(evs, files, path) == [events |-> evs, exc |-> NoResult, fs |-> files, path |-> path]
ExportFailed(evs, files, exc) == [events |-> evs, exc |-> exc, fs |-> files, path |-> NoPath]

export_json(data, path, files) ==
    Exported(<<Event("mkdir", path.dir), Event("write", path.dir)>>,
             WriteFile(Mkdir(files, path.dir), path, JsonDoc(data)),
             path)

\* fieldnames: the keys of all targets, gathered in a set
FieldNames(targets) == UNION {Keys(targets[i]) : i \in DOMAIN targets}

\* the keys in the order they first appear
RECURSIVE FirstSeen(_, _)
FirstSeen(pairs, seen) ==
    IF pairs = <<>> THEN <<>>
    ELSE IF Head(pairs).k \in seen THEN FirstSeen(Tail(pairs), seen)
    ELSE <<Head(pairs).k>> \o FirstSeen(Tail(pairs), seen \cup {Head(pairs).k})
RECURSIVE Flatten(_)
Flatten(rows) == IF rows = <<>> THEN <<>> ELSE Head(rows) \o Flatten(Tail(rows))

\* sorted(list(fieldnames))
RECURSIVE SortedList(_)
SortedList(S) ==
    IF S = {} THEN <<>>
    ELSE LET least == CHOOSE x \in S : \A y \in S \ {x} : StrLess(x, y)
         IN <<least>> \o SortedList(S \ {least})

\* a faulty variant of Header: the keys are left in the order they first appear
HeaderUnsorted(targets) == FirstSeen(Flatten(targets), {})
\* fieldnames = sorted(list(fieldnames))
Header(targets) == SortedList(FieldNames(targets))

\* the csv module's rendering of one field: None is empty, a number is str(n), a
\* string is quoted when it holds the delimiter, a quote or a line break
RECURSIVE DoubleQuotes(_)
DoubleQuotes(s) ==
    IF s = <<>> THEN <<>>
    ELSE (IF Head(s) = 34 THEN <<34, 34>> ELSE <<Head(s)>>) \o DoubleQuotes(Tail(s))
CsvField(v) ==
    CASE v.t = "null" -> <<>>
      [] v.t = "num" -> Digits(v.n)
      [] OTHER ->
            IF \E i \in DOMAIN v.s : v.s[i] \in {44, 34, 10, 13}
            THEN <<34>> \o DoubleQuotes(v.s) \o <<34>>
            ELSE v.s

\* DictWriter's row: row.get(key, restval) for every field name, restval = ''
RowCells(row, fieldnames) ==
    [j \in DOMAIN fieldnames |->
        IF \E i \in DOMAIN row : row[i].k = fieldnames[j]
        THEN CsvField(row[CHOOSE i \in DOMAIN row : row[i].k = fieldnames[j]].v)
        ELSE <<>>]

\* writer.writeheader(); writer.writerows(targets)
CsvLines(targets) ==
    LET fieldnames == Header(targets)
    IN <<fieldnames>> \o [i \in DOMAIN targets |-> RowCells(targets[i], fieldnames)]

export_csv(targets, path, files) ==
    IF targets = <<>>
    THEN ExportFailed(<<>>, files, Raise("ValueError", <<"No targets to export">>))
    ELSE Exported(<<Event("mkdir", path.dir), Event("write", path.dir)>>,
                  WriteFile(Mkdir(files, path.dir), path, CsvDoc(CsvLines(targets))),
                  path)

\* api_data.get('date', datetime.now().strftime('%Y-%m-%d'))
DateOf(api_data, today) == IF "date" \in api_data.keys THEN api_data.date ELSE today
\* api_data.get('targets', [])
TargetsOf(api_data) == IF "targets" \in api_data.keys THEN api_data.targets ELSE <<>>

\* f"{filename_prefix}_{date}.{ext}"
FileName(prefix, date, ext) == prefix \o <<95>> \o date \o <<46>> \o ext

\* a faulty variant of FormatKey: the format is compared as given
FormatKeyExact(format) == format
\* the format as the comparison sees it: format.lower()
FormatKey(format) == Lower(format)

\* prepend the first mkdir of export_targets_by_date to what the callee did
After(ev, out) == [out EXCEPT !.events = <<ev>> \o @]

export_targets_by_date(api_data, output_dir, format, filename_prefix, today, files) ==
    LET made == Mkdir(files, output_dir)
        date == DateOf(api_data, today)
        targets == TargetsOf(api_data)
        first == Event("mkdir", output_dir)
    IN  IF FormatKey(format) = S_json
        THEN After(first, export_json(api_data,
                        Path(output_dir, FileName(filename_prefix, date, S_json)), made))
        ELSE IF FormatKey(format) = S_csv
        THEN After(first, export_csv(targets,
                        Path(output_dir, FileName(filename_prefix, date, S_csv)), made))
        ELSE ExportFailed(<<first>>, made,
                          Raise("ValueError", <<"Unsupported format: ", "format">>))

----------------------------------------------------------------------------
(* The inputs the model draws from.                                        *)

\* CSV keys: "a", "B" (upper case sorts first) and "ab" ("a" is its prefix)
KeyNames == {<<97>>, <<66>>, <<97, 98>>}

\* the value a key holds, in two variants: a number, a string with a comma,
\* null, a plain string
ValueOf(k, variant) ==
    IF variant = 1
    THEN (IF k = <<97>> THEN VNum(12) ELSE IF k = <<66>> THEN VStr(<<120, 44, 121>>) ELSE VNull)
    ELSE (IF k = <<97>> THEN VStr(<<104>>) ELSE IF k = <<66>> THEN VNum(7) ELSE VStr(<<34>>))

\* every ordering of every subset of the keys
KeyOrders ==
    {ks \in UNION {[1..n -> KeyNames] : n \in 0..Cardinality(KeyNames)} :
        \A i, j \in DOMAIN ks : i # j => ks[i] # ks[j]}
Rows == {[i \in DOMAIN ks |-> Cell(ks[i], ValueOf(ks[i], variant))] :
            ks \in KeyOrders, variant \in {1, 2}}
TargetLists == UNION {[1..n -> Rows] : n \in 0..MaxTargets}

\* the targets of an API response: none, one, two
Row_a == <<Cell(<<97>>, VStr(<<104>>))>>
Row_Ba == <<Cell(<<66>>, VNum(7)), Cell(<<97>>, VNum(12))>>
ResponseTargets == {<<>>, <<Row_a>>, <<Row_Ba, Row_a>>}

SomeStats == [present |-> TRUE, total_targets |-> 2]
ErrorMessages == {"not found"}

MapBodies ==
    {JMap(keys,
          IF "error" \in keys THEN m ELSE "",
          IF "date" \in keys THEN D_0115 ELSE <<>>,
          IF "targets" \in keys THEN T ELSE <<>>,
          IF "stats" \in keys THEN SomeStats ELSE NoStats) :
        keys \in SUBSET {"error", "date", "targets", "stats"},
        T \in ResponseTargets, m \in ErrorMessages}

ApiData == {b \in MapBodies : "error" \notin b.keys}

\* "json" and "csv" in several casings, and two values that are neither
Formats ==
    {S_json, <<74, 83, 79, 78>>, <<74, 115, 111, 110>>,
     S_csv, <<67, 83, 86>>, <<99, 83, 118>>,
     <<120, 109, 108>>, <<>>}
Prefixes == {S_targets, <<116>>}
OutputDirs == {"cwd", "cwd/exports", "cwd/exports/daily"}
Todays == {D_0116}

\* file systems a process may start on: only the working directory; all
\* directories, no files; all directories, with older files in place
OldNames ==
    {FileName(S_targets, D_0115, S_json), FileName(S_targets, D_0115, S_csv),
     FileName(S_search, <<97, 95, 98>>, S_json), FileName(S_search, <<97, 95, 98>>, S_csv),
     FileName(S_stats, S_overview, S_json)}
FsBare == [dirs |-> {"cwd"}, files |-> [p \in {} |-> OldDoc]]
FsDirs == [dirs |-> OutputDirs, files |-> [p \in {} |-> OldDoc]]
FsOld ==
    [dirs |-> OutputDirs,
     files |-> [p \in {Path(d, n) : d \in OutputDirs, n \in OldNames} |-> OldDoc]]
InitialFS == {FsBare, FsDirs, FsOld}

----------------------------------------------------------------------------
(* State.                                                                  *)

NoCall ==
    [op |-> "none", date |-> <<>>, host |-> <<>>, stat_type |-> <<>>,
     has_limit |-> FALSE, limit |-> 0, export |-> FALSE, format |-> <<>>,
     prefix |-> <<>>, output_dir |-> "", today |-> <<>>, data |-> JNull,
     targets |-> <<>>, path |-> NoPath]

NoError == [prefix |-> "", msg |-> <<>>]

Init ==
    /\ pc = "idle"
    /\ build \in Builds
    /\ call = NoCall
    /\ events = <<>>
    /\ response = NoResponse
    /\ result = NoResult
    /\ fs \in InitialFS
    /\ fs0 = fs
    /\ stdout = <<>>
    /\ stderr = NoError
    /\ exitCode = -1

\* sys.exit(main()): the process ends; the next invocation is a fresh process,
\* on whatever the file system holds then
Exit ==
    /\ pc = "done"
    /\ pc' = "idle"
    /\ call' = NoCall
    /\ events' = <<>>
    /\ response' = NoResponse
    /\ result' = NoResult
    /\ fs' \in InitialFS
    /\ fs0' = fs'
    /\ stdout' = <<>>
    /\ stderr' = NoError
    /\ exitCode' = -1
    /\ UNCHANGED build

----------------------------------------------------------------------------
(* The exporter's operations, called directly.                             *)

\* an exporter call that ran to its end with outcome out
ExporterDone(c, out) ==
    /\ pc' = "done"
    /\ call' = [c EXCEPT !.path = out.path]
    /\ events' = out.events
    /\ result' = IF out.exc = NoResult THEN Return(JNull) ELSE out.exc
    /\ fs' = out.fs
    /\ UNCHANGED <<build, response, fs0, stdout, stderr, exitCode>>

CallExportJson ==
    /\ pc = "idle"
    /\ \E data \in ApiData, dir \in OutputDirs :
          LET path == Path(dir, FileName(S_stats, S_overview, S_json))
          IN ExporterDone([NoCall EXCEPT !.op = "export_json", !.data = data,
                                         !.output_dir = dir],
                          export_json(data, path, fs))

CallExportCsv ==
    /\ pc = "idle"
    /\ \E targets \in TargetLists, dir \in {"cwd/exports"} :
          LET path == Path(dir, FileName(S_search, <<97, 95, 98>>, S_csv))
          IN ExporterDone([NoCall EXCEPT !.op = "export_csv", !.targets = targets,
                                         !.output_dir = dir],
                          export_csv(targets, path, fs))

CallExportTargetsByDate ==
    /\ pc = "idle"
    /\ \E api_data \in ApiData, dir \in OutputDirs, format \in Formats,
          prefix \in Prefixes, today \in Todays :
          ExporterDone([NoCall EXCEPT !.op = "export_targets_by_date",
                                      !.data = api_data, !.output_dir = dir,
                                      !.format = format, !.prefix = prefix,
                                      !.today = today],
                       export_targets_by_date(api_data, dir, format, prefix, today, fs))

NextExport == CallExportJson \/ CallExportCsv \/ CallExportTargetsByDate \/ Exit
SpecExport == Init /\ [][NextExport]_vars

----------------------------------------------------------------------------
(* What the network may answer.                                            *)

\* lists of DateSummary in any server order, without repetition
DateLists ==
    {ds \in UNION {[1..n -> 1..MaxDates] : n \in 1..MaxDates} :
        \A i, j \in DOMAIN ds : i # j => ds[i] # ds[j]}

ListBodies ==
    {JList([i \in DOMAIN ds |-> DateSummary(ds[i])]) : ds \in DateLists}
    \cup {JList(<<>>), JList(<<ItemStr(S_error)>>), JList(<<ItemStr(<<111, 107>>)>>),
          JList(<<DateSummary(1), ItemStr(S_error)>>)}

\* "error", "no errors", "ok", ""
StrBodies ==
    {JStr(S_error), JStr(<<110, 111, 32, 101, 114, 114, 111, 114, 115>>),
     JStr(<<111, 107>>), JStr(<<>>)}

\* 0, 7, true, null
ScalarBodies == {JNum(0), JNum(7), [JNull EXCEPT !.t = "bool", !.n = 1], JNull}

Bodies == MapBodies \cup ListBodies \cup StrBodies \cup ScalarBodies

StatusCodes == {200, 201, 304, 404, 500}

ResponsesWith(statuses) ==
    {HttpResponse(st, TRUE, b) : st \in statuses, b \in Bodies}
    \cup {HttpResponse(st, FALSE, JNull) : st \in statuses}
    \cup {NetworkFailure("ConnectionError"), NetworkFailure("Timeout")}

Responses == ResponsesWith(StatusCodes)

\* dates a caller may pass: "2024-01-15" and "2024-01-16", and "2024-01-15" with
\* one character replaced, removed, put in front or appended; the characters are
\* '7', '-', '/', 'x', ' ', line feed and ARABIC-INDIC DIGIT THREE
EditChars == {55, 45, 47, 120, 32, 10, 1635}
DateInputs ==
    {D_0115, D_0116, <<>>, D_0115 \o <<10, 10>>, D_0115 \o <<10, 120>>}
    \cup {[D_0115 EXCEPT ![i] = c] : i \in 1..Len(D_0115), c \in EditChars}
    \cup {D_0115 \o <<c>> : c \in EditChars}
    \cup {<<c>> \o D_0115 : c \in EditChars}
    \cup {SubSeq(D_0115, 1, i - 1) \o SubSeq(D_0115, i + 1, Len(D_0115)) :
            i \in 1..Len(D_0115)}

\* "a.b", "ab"
Hosts == {<<97, 46, 98>>, <<97, 98>>}
\* the argparse choices the model uses, and a value outside them
StatTypes == {S_overview, S_by_day}

----------------------------------------------------------------------------
(* The client's operations, called directly.                               *)

\* a client call that ran to its end with outcome got, answered by resp
ClientDone(c, got, resp) ==
    /\ pc' = "done"
    /\ call' = c
    /\ events' = got.events
    /\ response' = IF got.events = <<>> THEN NoResponse ELSE resp
    /\ result' = got.result
    /\ UNCHANGED <<build, fs, fs0, stdout, stderr, exitCode>>

CallGetStats ==
    /\ pc = "idle"
    /\ \E stat_type \in StatTypes \cup {<<120>>}, resp \in Responses :
          ClientDone([NoCall EXCEPT !.op = "get_stats", !.stat_type = stat_type],
                     get_stats(stat_type, resp, build), resp)

CallGetRecentTargets ==
    /\ pc = "idle"
    /\ \E limit \in {20, 0}, resp \in Responses :
          ClientDone([NoCall EXCEPT !.op = "get_recent_targets", !.has_limit = TRUE,
                                    !.limit = limit],
                     get_recent_targets(limit, resp, build), resp)

CallSearchHost ==
    /\ pc = "idle"
    /\ \E host \in Hosts, resp \in Responses :
          ClientDone([NoCall EXCEPT !.op = "search_host", !.host = host],
                     search_host(host, resp, build), resp)

CallGetTargetsByDate ==
    /\ pc = "idle"
    /\ \E date \in DateInputs, resp \in Responses :
          ClientDone([NoCall EXCEPT !.op = "get_targets_by_date", !.date = date],
                     get_targets_by_date(date, resp, build), resp)

CallGetAvailableDates ==
    /\ pc = "idle"
    /\ \E resp \in Responses :
          ClientDone([NoCall EXCEPT !.op = "get_available_dates"],
                     get_available_dates(resp, build), resp)

NextClient ==
    \/ CallGetStats
    \/ CallGetRecentTargets
    \/ CallSearchHost
    \/ CallGetTargetsByDate
    \/ CallGetAvailableDates
    \/ Exit
SpecClient == Init /\ [][NextClient]_vars

----------------------------------------------------------------------------
(* Command dispatcher (cli.py).                                            *)

Line(tag, val) == [tag |-> tag, val |-> val]

\* a faulty variant of ErrorPrefix: one prefix for every exception
ErrorPrefixAlwaysError(class) == "Error: "
\* except ValueError -> "Error: ", except Exception -> "Unexpected error: "
ErrorPrefix(class) == IF class = "ValueError" THEN "Error: " ELSE "Unexpected error: "

\* how a command ends: exc is the exception its handler caught, if any
Handled(evs, res, exc, files, out) ==
    [events |-> evs, result |-> res, exc |-> exc, fs |-> files, stdout |-> out,
     stderr |-> [prefix |-> ErrorPrefix(exc.kind), msg |-> exc.msg],
     exitCode |-> 1, path |-> NoPath]
Finished(evs, res, files, out, code, path) ==
    [events |-> evs, result |-> res, exc |-> NoResult, fs |-> files, stdout |-> out,
     stderr |-> NoError, exitCode |-> code, path |-> path]

\* data.get(...) on a value that is no mapping
NoGet == Raise("AttributeError", <<"object has no attribute 'get'">>)

\* args.output_dir or os.getcwd()
OutputDirOf(arg) == IF arg = "" THEN "cwd" ELSE arg

\* a faulty variant of NoTargets: an empty list counts as targets
NoTargetsOnlyWhenMissing(data) == "targets" \notin data.keys
\* not data.get('targets')
NoTargets(data) == "targets" \notin data.keys \/ data.targets = <<>>

\* seq[:n]
SliceTo(seq, n) ==
    IF n >= 0 THEN SubSeq(seq, 1, Min(n, Len(seq)))
    ELSE SubSeq(seq, 1, Max(0, Len(seq) + n))

\* the first element of items that is no mapping (Len + 1 when all are)
FirstBad(items) ==
    IF \E i \in DOMAIN items : items[i].t # "map"
    THEN CHOOSE i \in DOMAIN items :
            items[i].t # "map" /\ \A j \in 1..(i - 1) : items[j].t = "map"
    ELSE Len(items) + 1

cmd_extract(date, format, output_dir, prefix, today, resp, bld, files) ==
    LET got == get_targets_by_date(date, resp, bld)
        data == got.result.value
        fetching == <<Line("Fetching targets for date", 0)>>
    IN  IF got.result.kind # "return"
        THEN Handled(got.events, got.result, got.result, files, fetching)
        ELSE IF data.t # "map"
        THEN Handled(got.events, got.result, NoGet, files, fetching)
        ELSE IF NoTargets(data)
        THEN Finished(got.events, got.result, files,
                      fetching \o <<Line("No targets found for date", 0)>>, 1, NoPath)
        ELSE LET out == export_targets_by_date(data, OutputDirOf(output_dir), format,
                                               prefix, today, files)
             IN IF out.exc # NoResult
                THEN Handled(got.events \o out.events, got.result, out.exc, out.fs, fetching)
                ELSE Finished(got.events \o out.events, got.result, out.fs,
                              fetching \o <<Line("Export completed successfully",
                                                 data.stats.total_targets)>>,
                              0, out.path)

\* a faulty variant of HostFileStem: the dots stay
HostFileStemKeepDots(host) == host
\* args.host.replace('.', '_')
HostFileStem(host) == ReplaceDots(host)

cmd_search(host, has_limit, limit, export, format, output_dir, resp, bld, files) ==
    LET got == search_host(host, resp, bld)
        data == got.result.value
        searching == <<Line("Searching for host", 0)>>
        targets == TargetsOf(data)
        shown == SliceTo(targets, limit)
        listing ==
            IF has_limit /\ limit # 0 /\ targets # <<>>
            THEN <<Line("Showing first", Min(limit, Len(targets)))>>
                 \o [i \in DOMAIN shown |-> Line("target", i)]
            ELSE <<>>
        printed == searching \o <<Line("Search Results", data.stats.total_targets)>> \o listing
        dir == OutputDirOf(output_dir)
    IN  IF got.result.kind # "return"
        THEN Handled(got.events, got.result, got.result, files, searching)
        ELSE IF data.t # "map"
        THEN Handled(got.events, got.result, NoGet, files, searching)
        ELSE IF ~export
        THEN Finished(got.events, got.result, files, printed, 0, NoPath)
        ELSE LET out ==
                    IF format = S_json
                    THEN export_json(data,
                            Path(dir, FileName(S_search, HostFileStem(host), S_json)), files)
                    ELSE export_csv(targets,
                            Path(dir, FileName(S_search, HostFileStem(host), S_csv)), files)
             IN IF out.exc # NoResult
                THEN Handled(got.events \o out.events, got.result, out.exc, out.fs, printed)
                ELSE Finished(got.events \o out.events, got.result, out.fs,
                              printed \o <<Line("Exported to", 0)>>, 0, out.path)

cmd_stats(type, export, output_dir, resp, bld, files) ==
    LET got == get_stats(type, resp, bld)
        data == got.result.value
        bad == FirstBad(data.items)
        table ==
            IF data.t = "list" /\ data.items # <<>>
            THEN <<Line("Statistics", 0)>>
                 \o (IF bad = 1 THEN <<>>
                     ELSE <<Line("header", 0)>>
                          \o [i \in 1..(bad - 1) |-> Line("row", data.items[i].date)])
            ELSE <<Line("Statistics", 0)>>
        printed ==
            IF type = S_overview
            THEN <<Line("Overview Statistics", data.stats.total_targets)>>
            ELSE table
        dir == OutputDirOf(output_dir)
    IN  IF got.result.kind # "return"
        THEN Handled(got.events, got.result, got.result, files, <<>>)
        ELSE IF type = S_overview /\ data.t # "map"
        THEN Handled(got.events, got.result, NoGet, files,
                     <<Line("Overview Statistics", 0)>>)
        ELSE IF type # S_overview /\ data.t = "list" /\ bad <= Len(data.items)
        THEN Handled(got.events, got.result, NoGet, files, table)
        ELSE IF ~export
        THEN Finished(got.events, got.result, files, printed, 0, NoPath)
        ELSE LET out == export_json(data, Path(dir, FileName(S_stats, type, S_json)), files)
             IN Finished(got.events \o out.events, got.result, out.fs,
                         printed \o <<Line("Exported to", 0)>>, 0, out.path)

cmd_dates(has_limit, limit, resp, bld, files) ==
    LET got == get_available_dates(resp, bld)
        dates == got.result.value
        D == Len(dates.items)
        use == has_limit /\ limit # 0
        shown == IF use THEN SliceTo(dates.items, limit) ELSE dates.items
        bad == FirstBad(shown)
        title == <<Line("Available Dates", D)>>
        rows == [i \in 1..(bad - 1) |-> Line("row", shown[i].date)]
        more == IF use /\ D > limit THEN <<Line("more dates", D - limit)>> ELSE <<>>
    IN  IF got.result.kind # "return"
        THEN Handled(got.events, got.result, got.result, files, <<>>)
        ELSE IF ~Truthy(dates)
        THEN Finished(got.events, got.result, files,
                      <<Line("No dates with data available", 0)>>, 0, NoPath)
        ELSE IF dates.t # "list"
        THEN Handled(got.events, got.result, NoGet, files,
                     <<Line("Available Dates", 0)>>)
        ELSE IF bad <= Len(shown)
        THEN Handled(got.events, got.result, NoGet, files, title \o rows)
        ELSE Finished(got.events, got.result, files, title \o rows \o more, 0, NoPath)

\* the answers the commands are run against
CliStatusCodes == {200, 404}
CliResponses == ResponsesWith(CliStatusCodes)
\* DATE: a date, a date and a line feed, a date with an ARABIC-INDIC DIGIT, a date
\* with a slash, nothing
CliDates ==
    {D_0115, D_0115 \o <<10>>, [D_0115 EXCEPT ![10] = 1635], [D_0115 EXCEPT ![5] = 47], <<>>}
\* --format: the argparse choices
FormatChoices == {S_json, S_csv}
\* --output-dir: not given, or a directory
OutputDirArgs == {"", "cwd/exports"}
\* --limit: not given, or an integer
LimitArgs ==
    {[has_limit |-> FALSE, limit |-> 0]}
    \cup {[has_limit |-> TRUE, limit |-> n] : n \in (0 - MaxLimit)..MaxLimit}

\* a command that ran to its end with outcome out, answered by resp
CommandDone(c, out, resp) ==
    /\ pc' = "done"
    /\ call' = [c EXCEPT !.path = out.path]
    /\ events' = out.events
    /\ response' = IF \E i \in DOMAIN out.events : out.events[i].ev = "GET"
                   THEN resp ELSE NoResponse
    /\ result' = out.result
    /\ fs' = out.fs
    /\ stdout' = out.stdout
    /\ stderr' = out.stderr
    /\ exitCode' = out.exitCode
    /\ UNCHANGED <<build, fs0>>

RunExtract ==
    /\ pc = "idle"
    /\ \E date \in CliDates, format \in FormatChoices, output_dir \in OutputDirArgs,
          prefix \in Prefixes, today \in Todays, resp \in CliResponses :
          CommandDone([NoCall EXCEPT !.op = "extract", !.date = date, !.format = format,
                                     !.output_dir = output_dir, !.prefix = prefix,
                                     !.today = today],
                      cmd_extract(date, format, output_dir, prefix, today, resp, build, fs),
                      resp)

RunSearch ==
    /\ pc = "idle"
    /\ \E host \in Hosts, lim \in {l \in LimitArgs : l.limit \in {0, 1}},
          export \in BOOLEAN, format \in FormatChoices, output_dir \in OutputDirArgs,
          resp \in CliResponses :
          CommandDone([NoCall EXCEPT !.op = "search", !.host = host,
                                     !.has_limit = lim.has_limit, !.limit = lim.limit,
                                     !.export = export, !.format = format,
                                     !.output_dir = output_dir],
                      cmd_search(host, lim.has_limit, lim.limit, export, format,
                                 output_dir, resp, build, fs),
                      resp)

RunStats ==
    /\ pc = "idle"
    /\ \E type \in StatTypes, export \in BOOLEAN, output_dir \in OutputDirArgs,
          resp \in CliResponses :
          CommandDone([NoCall EXCEPT !.op = "stats", !.stat_type = type,
                                     !.export = export, !.output_dir = output_dir],
                      cmd_stats(type, export, output_dir, resp, build, fs),
                      resp)

RunDates ==
    /\ pc = "idle"
    /\ \E lim \in LimitArgs, resp \in CliResponses :
          CommandDone([NoCall EXCEPT !.op = "dates", !.has_limit = lim.has_limit,
                                     !.limit = lim.limit],
                      cmd_dates(lim.has_limit, lim.limit, resp, build, fs),
                      resp)

Next == RunExtract \/ RunSearch \/ RunStats \/ RunDates \/ Exit
Spec == Init /\ [][Next]_vars

----------------------------------------------------------------------------
(* Claims about the API client, checked under SpecClient.                  *)

ClientOps ==
    {"get_stats", "get_recent_targets", "search_host", "get_targets_by_date",
     "get_available_dates"}

\* a client operation was answered with HTTP and a body that parses as JSON
AnsweredWithJson == pc = "done" /\ call.op \in ClientOps /\ response.kind = "http" /\ response.parses

\* the operation failed with the API-level error carrying the server's message m
IsApiError(r, m) == r.kind = "ValueError" /\ r.msg = <<"API Error: ", m>>

ExactDate(d) ==
    /\ Len(d) = 10
    /\ \A i \in {1, 2, 3, 4, 6, 7, 9, 10} : IsDigit(d[i])
    /\ d[5] = 45
    /\ d[8] = 45

\* C2 as stated: get_targets_by_date issues a GET iff the date is exactly
\* DDDD-DD-DD; any other string fails with the validation error and no GET.
C2_GetIffExactDate ==
    (pc = "done" /\ call.op = "get_targets_by_date")
        => /\ (events # <<>>) <=> ExactDate(call.date)
           /\ ~ExactDate(call.date)
                => /\ result = Raise("ValueError", <<"Date must be in YYYY-MM-DD format">>)
                   /\ \A i \in DOMAIN events : events[i].ev # "GET"

\* C4 as stated: after a 2xx answer whose body parses, _request raises the API
\* error only for a mapping with the key `error`; every other body (a list, even
\* one that holds "error", a string, a number, null) is returned unchanged.
C4_OnlyMappingsWithErrorFail ==
    (AnsweredWithJson /\ response.status \in 200..299)
        => IF response.data.t = "map" /\ "error" \in response.data.keys
           THEN IsApiError(result, response.data.error)
           ELSE result = Return(response.data)

----------------------------------------------------------------------------
(* Claims about the exporter, checked under SpecExport.                    *)

HasFile(files, path) == path \in DOMAIN files.files

\* the value a row holds for a key it has
ValueAt(row, k) == row[CHOOSE i \in DOMAIN row : row[i].k = k].v

\* a list with the elements at i and i + 1 exchanged
SwapAt(seq, i) ==
    [j \in DOMAIN seq |-> IF j = i THEN seq[i + 1] ELSE IF j = i + 1 THEN seq[i] ELSE seq[j]]

\* the lists one exchange away from targets: two neighbouring rows exchanged, or
\* two neighbouring keys of one row
Reordered(targets) ==
    {SwapAt(targets, i) : i \in 1..(Len(targets) - 1)}
    \cup UNION {{[targets EXCEPT ![r] = SwapAt(targets[r], i)] :
                    i \in 1..(Len(targets[r]) - 1)} : r \in DOMAIN targets}

\* C7: for a non-empty list of targets export_csv writes a header that is the
\* union of the keys of all rows in ascending order, then one line per target in
\* input order whose column for a key holds the row's value for it, or the empty
\* string when the row lacks the key; exchanging rows, or keys within a row,
\* leaves the header as it is.
C7_CsvHeaderAndRows ==
    (pc = "done" /\ call.op = "export_csv" /\ call.targets # <<>>)
        => /\ result.kind = "return"
           /\ HasFile(fs, call.path)
           /\ LET doc == fs.files[call.path]
                  header == doc.lines[1]
              IN /\ doc.fmt = "csv"
                 /\ Len(doc.lines) = Len(call.targets) + 1
                 /\ {header[j] : j \in DOMAIN header}
                        = UNION {Keys(call.targets[r]) : r \in DOMAIN call.targets}
                 /\ \A i, j \in DOMAIN header : i < j => StrLess(header[i], header[j])
                 /\ \A r \in DOMAIN call.targets :
                       /\ DOMAIN doc.lines[r + 1] = DOMAIN header
                       /\ \A j \in DOMAIN header :
                             doc.lines[r + 1][j] =
                                 IF header[j] \in Keys(call.targets[r])
                                 THEN CsvField(ValueAt(call.targets[r], header[j]))
                                 ELSE <<>>
                 /\ \A other \in Reordered(call.targets) : Header(other) = header

\* C7 witness: two targets with different keys were written: the header has
\* three columns and each line has a blank
C7_Witness ==
    /\ pc = "done" /\ call.op = "export_csv"
    /\ Len(call.targets) = 2
    /\ Keys(call.targets[1]) = {<<97, 98>>, <<66>>}
    /\ Keys(call.targets[2]) = {<<97>>}
    /\ HasFile(fs, call.path)
    /\ fs.files[call.path].lines[1] = <<<<66>>, <<97>>, <<97, 98>>>>
    /\ fs.files[call.path].lines[3] = <<<<>>, <<49, 50>>, <<>>>>

\* the file export_targets_by_date is to write for a format whose lower-cased
\* form is ext
ExpectedPath(c, ext) ==
    Path(c.output_dir,
         c.prefix \o <<95>> \o (IF "date" \in c.data.keys THEN c.data.date ELSE c.today)
                  \o <<46>> \o ext)

\* C8: export_targets_by_date depends on `format` only through its lower-cased
\* form: every casing of "json" writes the entire api_data mapping (stats
\* included) to {prefix}_{date}.json; every casing of "csv" writes only
\* api_data['targets'] to {prefix}_{date}.csv; and a call with the format in any
\* other casing ends the same way, with the same path and the same files.
C8_FormatCaseInsensitive ==
    (pc = "done" /\ call.op = "export_targets_by_date")
        => /\ Lower(call.format) = S_json
                => /\ result.kind = "return"
                   /\ call.path = ExpectedPath(call, S_json)
                   /\ HasFile(fs, call.path)
                   /\ fs.files[call.path].fmt = "json"
                   /\ fs.files[call.path].doc = call.data
                   /\ fs.files[call.path].doc.stats = call.data.stats
           /\ (Lower(call.format) = S_csv /\ result.kind = "return")
                => /\ call.path = ExpectedPath(call, S_csv)
                   /\ HasFile(fs, call.path)
                   /\ fs.files[call.path].fmt = "csv"
                   /\ fs.files[call.path].doc = JNull
                   /\ fs.files[call.path].lines = CsvLines(call.data.targets)
           /\ \A other \in Formats :
                 Lower(other) = Lower(call.format)
                    => LET out == export_targets_by_date(call.data, call.output_dir, other,
                                                         call.prefix, call.today, fs0)
                       IN /\ out.path = call.path
                          /\ out.fs = fs
                          /\ (out.exc = NoResult) = (result.kind = "return")
                          /\ out.exc # NoResult => out.exc = result

\* C8 witness: format "JSON" wrote the mapping, stats and all, over an older file
C8_Witness ==
    /\ pc = "done" /\ call.op = "export_targets_by_date"
    /\ call.format = <<74, 83, 79, 78>>
    /\ call.data.stats.present
    /\ HasFile(fs0, call.path)
    /\ fs.files[call.path] = JsonDoc(call.data)

----------------------------------------------------------------------------
(* Claims about the commands, checked under Spec.                          *)

Commands == {"extract", "search", "stats", "dates"}
CommandRan == pc = "done" /\ call.op \in Commands

CountEvents(ev) == Cardinality({i \in DOMAIN events : events[i].ev = ev})
Printed(tag) == \E i \in DOMAIN stdout : stdout[i].tag = tag

\* the failure classes of the error taxonomy, read off the inputs
TransportFailure ==
    /\ CountEvents("GET") > 0
    /\ response.kind # "http" \/ response.status >= 400
ProtocolFailure == response.kind = "http" /\ response.status < 400 /\ ~response.parses
ApiLevelFailure ==
    /\ response.kind = "http" /\ response.status < 400 /\ response.parses
    /\ response.data.t = "map" /\ "error" \in response.data.keys
\* a bad date; CSV export of no targets (the format is an argparse choice)
ValidationFailure ==
    \/ call.op = "extract" /\ ~DateMatches(call.date)
    \/ /\ call.op = "search" /\ call.export /\ call.format = S_csv
       /\ result.kind = "return" /\ result.value.t = "map"
       /\ TargetsOf(result.value) = <<>>

\* C3 as stated: a failure is reported with "Error: " iff it is a client-side
\* validation error; transport, invalid-JSON and API-level failures are reported
\* with "Unexpected error: "; every failure returns exit code 1.
C3_ErrorPrefixOnlyForValidation ==
    CommandRan
        => /\ (stderr.prefix = "Error: ") <=> ValidationFailure
           /\ (TransportFailure \/ ProtocolFailure \/ ApiLevelFailure)
                => stderr.prefix = "Unexpected error: "
           /\ stderr # NoError => exitCode = 1

\* C3 amended: a failure is reported with "Error: " iff it is a client-side
\* validation error, an API-level failure (body carrying an `error` key), or an
\* invalid-JSON failure where response.json() raises the plain JSONDecodeError;
\* transport failures, and invalid-JSON failures where response.json() raises
\* requests' own JSONDecodeError, are reported with "Unexpected error: "; every
\* failure returns exit code 1.
C3_ErrorPrefixForValueErrors ==
    CommandRan
        => /\ (stderr.prefix = "Error: ")
                <=> \/ ValidationFailure
                    \/ ApiLevelFailure
                    \/ ProtocolFailure /\ build = "JSONDecodeError"
           /\ (TransportFailure \/ (ProtocolFailure /\ build = "RequestsJSONDecodeError"))
                => stderr.prefix = "Unexpected error: "
           /\ (ValidationFailure \/ TransportFailure \/ ProtocolFailure \/ ApiLevelFailure)
                => stderr # NoError
           /\ stderr # NoError => exitCode = 1

\* C3 witness: an API-level failure of the search command, reported with "Error: "
C3_Witness ==
    /\ CommandRan /\ call.op = "search"
    /\ ApiLevelFailure
    /\ stderr = [prefix |-> "Error: ", msg |-> <<"API Error: ", "not found">>]
    /\ exitCode = 1

\* C5: when extract's API call succeeds and the response has no targets (the key
\* is missing, or the list is empty), the command prints the "no targets found"
\* message, returns 1 and never calls the exporter: no file, no directory.
C5_NoTargetsNoExport ==
    (/\ CommandRan /\ call.op = "extract"
     /\ result.kind = "return" /\ result.value.t = "map"
     /\ "targets" \notin result.value.keys \/ result.value.targets = <<>>)
        => /\ Printed("No targets found for date")
           /\ exitCode = 1
           /\ stderr = NoError
           /\ CountEvents("mkdir") = 0 /\ CountEvents("write") = 0
           /\ fs = fs0

\* C5 witness: {"targets": [], "stats": {...}} answered an extract to a directory
\* that does not exist
C5_Witness ==
    /\ CommandRan /\ call.op = "extract"
    /\ result.kind = "return" /\ result.value.t = "map"
    /\ {"targets", "stats"} \subseteq result.value.keys
    /\ result.value.targets = <<>>
    /\ call.output_dir = "cwd/exports" /\ "cwd/exports" \notin fs0.dirs
    /\ exitCode = 1

\* the dates of the rows the dates command printed, and its "more" notices
RowsPrinted == SelectSeq(stdout, LAMBDA l : l.tag = "row")
Notices == SelectSeq(stdout, LAMBDA l : l.tag = "more dates")

\* C6 as stated: for a non-empty list of D dates and a given --limit L (0 and
\* negative values included) the dates command prints exactly min(L, D) rows in
\* server order, and the "... and N more" notice iff D > L, with N = D - L, so
\* that rows plus N is D; without --limit it prints all D rows and no notice.
C6_DatesLimit ==
    (/\ CommandRan /\ call.op = "dates"
     /\ result.kind = "return" /\ result.value.t = "list"
     /\ result.value.items # <<>>
     /\ \A i \in DOMAIN result.value.items : result.value.items[i].t = "map")
        => LET dates == result.value.items
               D == Len(dates)
               L == call.limit
               N == IF Notices = <<>> THEN 0 ELSE Notices[1].val
           IN  IF call.has_limit
               THEN /\ Len(RowsPrinted) = Min(L, D)
                    /\ \A i \in DOMAIN RowsPrinted : RowsPrinted[i].val = dates[i].date
                    /\ (Notices # <<>>) <=> D > L
                    /\ Notices # <<>> => N = D - L
                    /\ Len(RowsPrinted) + N = D
               ELSE /\ Len(RowsPrinted) = D
                    /\ \A i \in DOMAIN RowsPrinted : RowsPrinted[i].val = dates[i].date
                    /\ Notices = <<>>

\* C9: a command issues at most one GET, exactly one unless the date fails its
\* validation, and none after a failure; the GET comes before any directory or
\* file is written; after a failed request the command returns 1 and has
\* written nothing.
C9_OneGetBeforeAnyWrite ==
    CommandRan
        => /\ CountEvents("GET") <= 1
           /\ IF result = Raise("ValueError", <<"Date must be in YYYY-MM-DD format">>)
              THEN CountEvents("GET") = 0
              ELSE CountEvents("GET") = 1
           /\ \A i \in DOMAIN events :
                 events[i].ev \in {"mkdir", "write"}
                    => \E j \in 1..(i - 1) : events[j].ev = "GET"
           /\ result.kind # "return"
                => /\ exitCode = 1
                   /\ fs = fs0
                   /\ CountEvents("mkdir") = 0 /\ CountEvents("write") = 0

\* C9 witness: an extract that fetched, then made the directory and wrote the file
C9_Witness ==
    /\ CommandRan /\ call.op = "extract"
    /\ exitCode = 0
    /\ Len(events) = 4
    /\ events[1].ev = "GET" /\ events[2].ev = "mkdir" /\ events[4].ev = "write"
    /\ fs # fs0

\* the file the search command is to write
SearchFile ==
    Path(OutputDirOf(call.output_dir),
         S_search \o <<95>>
            \o [i \in DOMAIN call.host |-> IF call.host[i] = 46 THEN 95 ELSE call.host[i]]
            \o <<46>> \o call.format)

\* exactly the file at path was written, with content doc
WroteOnly(path, doc) ==
    /\ CountEvents("write") = 1
    /\ HasFile(fs, path)
    /\ fs.files[path] = doc
    /\ DOMAIN fs.files = DOMAIN fs0.files \cup {path}
    /\ \A p \in DOMAIN fs0.files : p # path => fs.files[p] = fs0.files[p]

\* search with --export whose API call returned a mapping
SearchExported ==
    /\ CommandRan /\ call.op = "search" /\ call.export
    /\ result.kind = "return" /\ result.value.t = "map"

\* C10 as stated: search with --export whose API call succeeds writes, for both
\* formats and every response (an empty or missing targets list included),
\* exactly one file search_<host, dots replaced>.<format> in the output
\* directory, and returns 0.
C10_SearchExportAlwaysWrites ==
    SearchExported
        => /\ CountEvents("write") = 1
           /\ HasFile(fs, SearchFile)
           /\ fs.files[SearchFile].fmt # "old"
           /\ exitCode = 0

\* C10 amended: search with --export whose API call succeeds with a mapping
\* writes exactly one file search_<host, dots replaced>.<format> in the output
\* directory and returns 0, for --format json and every such response, and for
\* --format csv when the targets list is not empty; for --format csv with an
\* empty or missing targets list nothing is written, "Error: No targets to
\* export" is reported and the command returns 1.
C10_SearchExportWritesUnlessEmptyCsv ==
    SearchExported
        => IF call.format = S_csv /\ TargetsOf(result.value) = <<>>
           THEN /\ fs = fs0
                /\ CountEvents("write") = 0 /\ CountEvents("mkdir") = 0
                /\ stderr = [prefix |-> "Error: ", msg |-> <<"No targets to export">>]
                /\ exitCode = 1
           ELSE /\ WroteOnly(SearchFile,
                             IF call.format = S_json THEN JsonDoc(result.value)
                             ELSE CsvDoc(CsvLines(result.value.targets)))
                /\ call.path = SearchFile
                /\ stderr = NoError
                /\ exitCode = 0

\* C10 witness: search a.b --export --format csv wrote search_a_b.csv
C10_Witness ==
    /\ SearchExported
    /\ call.host = <<97, 46, 98>> /\ call.format = S_csv
    /\ call.path.name = <<115, 101, 97, 114, 99, 104, 95, 97, 95, 98, 46, 99, 115, 118>>
    /\ HasFile(fs, call.path) /\ ~HasFile(fs0, call.path)
    /\ exitCode = 0

----------------------------------------------------------------------------
(* A claim about the exporter's failures, checked under SpecExport.        *)

\* export_targets_by_date raised its validation error: the format is neither
\* "json" nor "csv" in any casing, or it is "csv" and there are no targets
ExportByDateRejected ==
    /\ pc = "done" /\ call.op = "export_targets_by_date"
    /\ result.kind = "ValueError"
    /\ \/ Lower(call.format) \notin {S_json, S_csv}
       \/ Lower(call.format) = S_csv
            /\ ("targets" \notin call.data.keys \/ call.data.targets = <<>>)

\* C11 as stated: whenever export_targets_by_date fails with a validation error
\* (an unsupported format, or format csv with an empty or missing targets list)
\* the file system is as it was before the call: no file is created or
\* overwritten and no directory, output_dir and its parents included, is created.
C11_RejectedExportLeavesFsAlone ==
    ExportByDateRejected
        => /\ fs.files = fs0.files
           /\ fs.dirs = fs0.dirs

====
